---- MODULE Spec2Model ----
(***************************************************************************)
(* Tile-grid geocoding and viewport positioning of nanobanana-maps:        *)
(* services/googleMaps (latLngToPreciseTileXY, getTilesForArea,            *)
(* preciseTileXYToLatLng), the constants, App (location state, fetchTiles, *)
(* handlePanEnd, zoom handlers) and MapGrid (drag state, layout).          *)
(*                                                                         *)
(* Numbers.  The program computes in IEEE doubles; the model computes in   *)
(* exact integer fixed point and does not model floating-point rounding.   *)
(*   - tile-space values and pixel values carry ONE units per 1.0          *)
(*     (x tiles is the integer x * ONE, p pixels is p * ONE);              *)
(*   - angles carry World units per 360 degrees: a longitude of d degrees  *)
(*     is the integer d * World / 360, so 180 degrees is Deg180 and one    *)
(*     unit is one pixel of the map at MAX_ZOOM;                           *)
(*   - a latitude is carried as its Mercator ordinate                      *)
(*     ln(tan(latRad) + 1/cos(latRad)) / PI in the same units (1.0 is      *)
(*     Deg180, the Mercator limit 85.0511 degrees); the transcendental     *)
(*     pair ln(tan + sec) / atan(sinh) itself is not modelled, only the    *)
(*     affine part of the projection around it;                            *)
(*   - n * (a / 360) is evaluated as a / (360 / n): TLC's integers are 32  *)
(*     bits wide and n * a does not fit.  A centre that is finer than one  *)
(*     fixed-point step of tile space at its zoom is truncated to it.      *)
(***************************************************************************)
EXTENDS Integers, Sequences, FiniteSets, TLC

\* ------------------------------------------------------------- constants
TILE_SIZE == 256
VISIBLE_GRID_DIMENSION == 3
FETCH_GRID_DIMENSION == 5
POSITIONING_FACTOR == 1
MIN_ZOOM == 1
MAX_ZOOM == 22

\* Fixed point: units per tile (and per pixel), units per 360 degrees.
ONE == TILE_SIZE
World == (2 ^ MAX_ZOOM) * ONE
Deg180 == World \div 2

\* 48.8584 N, 2.2945 E in World units (latitude as Mercator ordinate).
DEFAULT_LOCATION == [lat |-> 167481387, lng |-> 6843613, zoom |-> 17]

\* 85 degrees of latitude: Mercator ordinate 0.99672417 of the limit.
Lat85 == Deg180 - 1758698

\* A whole number of pixels (or tiles) as a fixed-point value.
Fixed(p) == p * ONE

\* ------------------------------------------------------- model bounds
\* Largest gridDimension handed to getTilesForArea by the function harness.
MaxGrid == 5
\* Largest number of location changes (pan, zoom, submit) in one run of the
\* application: the program does not limit them.
MaxChanges == 2

\* ------------------------------------------------------------ projection
\* Math.pow(2, zoom)
Pow2(zoom) == 2 ^ zoom

\* World units per fixed-point step of tile space at this zoom: 360 / n.
UnitsPerStep(zoom) == World \div (Pow2(zoom) * ONE)

\* Faulty variant: the longitude is not shifted by 180 degrees.
latLngToPreciseTileXYNoShift(lat, lng, zoom) ==
    [x |-> lng \div UnitsPerStep(zoom),
     y |-> (Deg180 - lat) \div UnitsPerStep(zoom)]

\* latLngToPreciseTileXY: xtile = n * ((lng + 180) / 360),
\* ytile = n * (1 - mercator(lat)) / 2.
latLngToPreciseTileXY(lat, lng, zoom) ==
    [x |-> (lng + Deg180) \div UnitsPerStep(zoom),
     y |-> (Deg180 - lat) \div UnitsPerStep(zoom)]

\* preciseTileXYToLatLng: lngDeg = (x / n) * 360 - 180,
\* mercator(lat) = 1 - (2 * y) / n.
preciseTileXYToLatLng(x, y, zoom) ==
    [lat |-> Deg180 - y * UnitsPerStep(zoom),
     lng |-> x * UnitsPerStep(zoom) - Deg180]

\* Math.floor of a fixed-point value, as a whole number.
Floor(v) == v \div ONE

\* ---------------------------------------------------------- grid builder
\* Faulty variant: gridX takes the row index as well.
MakeTileRowTwice(zoom, tileX, tileY, i, j, sessionToken, apiKey) ==
    [url |-> <<zoom, tileX, tileY, sessionToken, apiKey>>,
     gridX |-> i,
     gridY |-> i,
     key |-> <<zoom, tileX, tileY>>]

\* Faulty variant: gridX and gridY are swapped.
MakeTileSwapped(zoom, tileX, tileY, i, j, sessionToken, apiKey) ==
    [url |-> <<zoom, tileX, tileY, sessionToken, apiKey>>,
     gridX |-> i,
     gridY |-> j,
     key |-> <<zoom, tileX, tileY>>]

\* The tile pushed at (i, j): url and key are built from zoom, tileX, tileY.
MakeTile(zoom, tileX, tileY, i, j, sessionToken, apiKey) ==
    [url |-> <<zoom, tileX, tileY, sessionToken, apiKey>>,
     gridX |-> j,
     gridY |-> i,
     key |-> <<zoom, tileX, tileY>>]

RECURSIVE InnerLoop(_, _, _, _, _, _, _, _, _)
\* for (let j = 0; j < gridDimension; j++) { tiles.push(...) }
InnerLoop(tiles, i, j, gridDimension, startX, startY, zoom, sessionToken, apiKey) ==
    IF j < gridDimension
    THEN InnerLoop(Append(tiles, MakeTile(zoom, startX + j, startY + i, i, j,
                                          sessionToken, apiKey)),
                   i, j + 1, gridDimension, startX, startY, zoom, sessionToken, apiKey)
    ELSE tiles

RECURSIVE OuterLoop(_, _, _, _, _, _, _, _)
\* for (let i = 0; i < gridDimension; i++) { inner loop }
OuterLoop(tiles, i, gridDimension, startX, startY, zoom, sessionToken, apiKey) ==
    IF i < gridDimension
    THEN OuterLoop(InnerLoop(tiles, i, 0, gridDimension, startX, startY, zoom,
                             sessionToken, apiKey),
                   i + 1, gridDimension, startX, startY, zoom, sessionToken, apiKey)
    ELSE tiles

\* Faulty variant: Math.ceil instead of Math.floor.
HalfGridCeil(gridDimension) == (gridDimension + 1) \div 2

\* halfGrid = Math.floor(gridDimension / 2)
HalfGrid(gridDimension) == gridDimension \div 2

\* Faulty variant: the grid starts at the centre's tile, halfGrid forgotten.
GridStartAtCentre(center, zoom, gridDimension) ==
    LET preciseCenter == latLngToPreciseTileXY(center.lat, center.lng, zoom)
    IN  [x |-> Floor(preciseCenter.x),
         y |-> Floor(preciseCenter.y)]

\* startX, startY: the grid's top-left tile index.
GridStart(center, zoom, gridDimension) ==
    LET preciseCenter == latLngToPreciseTileXY(center.lat, center.lng, zoom)
    IN  [x |-> Floor(preciseCenter.x) - HalfGrid(gridDimension),
         y |-> Floor(preciseCenter.y) - HalfGrid(gridDimension)]

\* step = TILE_SIZE * POSITIONING_FACTOR, in whole pixels.
StepDistance == TILE_SIZE * POSITIONING_FACTOR

\* Faulty variant: the viewport is sized from the fetch dimension.
ViewportExtentOfFetchGrid == (FETCH_GRID_DIMENSION - 1) * StepDistance + TILE_SIZE

\* viewportWidth = viewportHeight = (VISIBLE_GRID_DIMENSION - 1) * step + TILE_SIZE
ViewportExtent == (VISIBLE_GRID_DIMENSION - 1) * StepDistance + TILE_SIZE

\* viewportCenterX = viewportWidth / 2, as a fixed-point pixel value.
ViewportCenter == Fixed(ViewportExtent) \div 2

\* Faulty variant: the target pixel is taken within the centre's own tile.
TargetPixelInTile(precise, start) == (precise - Fixed(Floor(precise))) * TILE_SIZE

\* targetPixelInGrid = (preciseCenter - start) * TILE_SIZE, per axis.
TargetPixelInGrid(precise, start) == (precise - Fixed(start)) * TILE_SIZE

\* Faulty variant: the difference is taken the other way round.
FinalTranslateReversed(precise, start) == TargetPixelInGrid(precise, start) - ViewportCenter

\* finalTranslate = viewportCenter - targetPixelInGrid, per axis.
FinalTranslate(precise, start) == ViewportCenter - TargetPixelInGrid(precise, start)

getTilesForArea(center, zoom, gridDimension, sessionToken, apiKey) ==
    LET preciseCenter == latLngToPreciseTileXY(center.lat, center.lng, zoom)
        start == GridStart(center, zoom, gridDimension)
    IN  [tiles |-> OuterLoop(<<>>, 0, gridDimension, start.x, start.y, zoom,
                             sessionToken, apiKey),
         offset |-> [x |-> FinalTranslate(preciseCenter.x, start.x),
                     y |-> FinalTranslate(preciseCenter.y, start.y)]]

\* ----------------------------------------------------------- pan resolver
\* Faulty variant: the pixel delta is added instead of subtracted.
ResolvePanAdded(location, panX, panY) ==
    LET currentTileXY == latLngToPreciseTileXY(location.lat, location.lng, location.zoom)
        newTileX == currentTileXY.x + panX \div TILE_SIZE
        newTileY == currentTileXY.y + panY \div TILE_SIZE
        newLatLng == preciseTileXYToLatLng(newTileX, newTileY, location.zoom)
    IN  [lat |-> newLatLng.lat, lng |-> newLatLng.lng, zoom |-> location.zoom]

\* Faulty variant: the pixel delta is divided by twice the tile size.
ResolvePanHalved(location, panX, panY) ==
    LET currentTileXY == latLngToPreciseTileXY(location.lat, location.lng, location.zoom)
        newTileX == currentTileXY.x - panX \div (2 * TILE_SIZE)
        newTileY == currentTileXY.y - panY \div (2 * TILE_SIZE)
        newLatLng == preciseTileXYToLatLng(newTileX, newTileY, location.zoom)
    IN  [lat |-> newLatLng.lat, lng |-> newLatLng.lng, zoom |-> location.zoom]

\* The body of handlePanEnd after its zero-delta guard: the new location.
ResolvePan(location, panX, panY) ==
    LET currentTileXY == latLngToPreciseTileXY(location.lat, location.lng, location.zoom)
        newTileX == currentTileXY.x - panX \div TILE_SIZE
        newTileY == currentTileXY.y - panY \div TILE_SIZE
        newLatLng == preciseTileXYToLatLng(newTileX, newTileY, location.zoom)
    IN  [lat |-> newLatLng.lat, lng |-> newLatLng.lng, zoom |-> location.zoom]

\* handlePanEnd's effect on the location: unchanged for a zero delta.
PanEndLocation(location, panX, panY) ==
    IF panX = 0 /\ panY = 0 THEN location ELSE ResolvePan(location, panX, panY)

\* A tile-space value the fixed point can carry back to an angle: within one
\* world width of the map on either side (the program has no such limit).
Representable(v, zoom) ==
    /\ v >= -(Pow2(zoom) * ONE)
    /\ v - Pow2(zoom) * ONE < Pow2(zoom) * ONE

\* ------------------------------------------------------------------ state
VARIABLES
    \* App
    location,        \* useState<LocationState>(DEFAULT_LOCATION)
    tiles,           \* useState<MapTile[]>([])
    mapOffset,       \* useState<MapOffset>({x: 0, y: 0})
    isLoading,       \* useState<boolean>(true)
    error,           \* useState<string | null>(null); "" is null
    sessionToken,    \* useState<string | null>(null); "" is null
    fetchEffectDue,  \* the [sessionToken, location, fetchTiles] effect is scheduled
    inflight,        \* fetchTiles calls suspended at their await, oldest first
    changes,         \* number of setLocation calls so far (bounded by MaxChanges)
    \* LocationForm
    formLocation,    \* useState<LocationState>(initialLocation)
    formSameObject,  \* formLocation is the very object App holds as location
    \* MapGrid
    isPanning,       \* useState(false)
    panStart,        \* useState<{x, y} | null>(null); <<>> is null
    panOffset,       \* useState({x: 0, y: 0})
    tilesEffectDue,  \* the [tiles] effect is scheduled
    lastPanEnd,      \* arguments of the onPanEnd calls of the current gesture
    dragDelta,       \* pointer displacement since the last mousedown (history)
    \* function harness
    pc,              \* "app", or the harness's position
    cCenter, cZoom, cGridDimension,   \* arguments of the next call
    cData,           \* <<>> or <<the MapData of the last getTilesForArea call>>
    cPan,            \* <<>> or <<the pixel delta of the last pan>>
    cBefore          \* <<>> or <<centre and MapData before the last pan>>

appVars == <<location, tiles, mapOffset, isLoading, error, sessionToken,
             fetchEffectDue, inflight, changes, formLocation, formSameObject,
             isPanning, panStart, panOffset, tilesEffectDue, lastPanEnd,
             dragDelta>>
coreVars == <<pc, cCenter, cZoom, cGridDimension, cData, cPan, cBefore>>
vars == <<appVars, coreVars>>

\* --------------------------------------------------------------- App
ZeroOffset == [x |-> 0, y |-> 0]

AppInit ==
    /\ location = DEFAULT_LOCATION
    /\ tiles = <<>>
    /\ mapOffset = ZeroOffset
    /\ isLoading = TRUE
    /\ error = ""
    /\ sessionToken = ""
    /\ fetchEffectDue = FALSE
    /\ inflight = <<>>
    /\ changes = 0
    /\ formLocation = DEFAULT_LOCATION
    /\ formSameObject = TRUE
    /\ isPanning = FALSE
    /\ panStart = <<>>
    /\ panOffset = [x |-> 0, y |-> 0]
    /\ tilesEffectDue = FALSE
    /\ lastPanEnd = <<>>
    /\ dragDelta = [x |-> 0, y |-> 0]

\* No effect of the last render is still to run.  React runs a render's
\* effects before it renders again, so the next render (of an event handler's
\* updates or of fetchTiles' updates after its await) finds them done.
EffectsDone == ~fetchEffectDue /\ ~tilesEffectDue

\* initSession resolved: setSessionToken(token); setError(null).  The new
\* sessionToken schedules the fetch effect.
InitSessionOk ==
    /\ pc = "app"
    /\ sessionToken = "" /\ error = ""
    /\ sessionToken' = "session"
    /\ error' = ""
    /\ fetchEffectDue' = TRUE
    /\ UNCHANGED <<location, tiles, mapOffset, isLoading, inflight, changes,
                   formLocation, formSameObject, isPanning, panStart, panOffset,
                   tilesEffectDue, lastPanEnd,
                   dragDelta, coreVars>>

\* initSession threw: setError(errorMsg); setIsLoading(false).
InitSessionFail ==
    /\ pc = "app"
    /\ sessionToken = "" /\ error = ""
    /\ error' = "Failed to initialize map session."
    /\ isLoading' = FALSE
    /\ UNCHANGED <<location, tiles, mapOffset, sessionToken, fetchEffectDue, inflight,
                   changes, formLocation, formSameObject, isPanning, panStart,
                   panOffset, tilesEffectDue, lastPanEnd,
                   dragDelta, coreVars>>

\* useEffect(() => { if (sessionToken) fetchTiles(location) }) up to the await
\* in fetchTiles: setIsLoading(true); setError(null); getTilesForArea(...) has
\* run (it has no await of its own) and its promise is pending.
FetchTilesStart ==
    /\ pc = "app"
    /\ fetchEffectDue
    /\ fetchEffectDue' = FALSE
    /\ IF sessionToken # ""
       THEN /\ isLoading' = TRUE
            /\ error' = ""
            /\ inflight' = Append(inflight,
                   getTilesForArea([lat |-> location.lat, lng |-> location.lng],
                                   location.zoom, FETCH_GRID_DIMENSION,
                                   sessionToken, "key"))
       ELSE UNCHANGED <<isLoading, error, inflight>>
    /\ UNCHANGED <<location, tiles, mapOffset, sessionToken, changes, formLocation,
                   formSameObject, isPanning, panStart, panOffset, tilesEffectDue,
                   lastPanEnd, dragDelta, coreVars>>

\* Faulty variant: the call that started last resumes first.
FetchTilesResumeNewestFirst ==
    /\ pc = "app"
    /\ EffectsDone
    /\ inflight # <<>>
    /\ tiles' = inflight[Len(inflight)].tiles
    /\ mapOffset' = inflight[Len(inflight)].offset
    /\ isLoading' = FALSE
    /\ inflight' = SubSeq(inflight, 1, Len(inflight) - 1)
    /\ tilesEffectDue' = TRUE
    /\ UNCHANGED <<location, error, sessionToken, fetchEffectDue, changes,
                   formLocation, formSameObject, isPanning, panStart, panOffset,
                   lastPanEnd, dragDelta, coreVars>>

\* fetchTiles after its await: setTiles(newTiles); setMapOffset(newOffset);
\* finally setIsLoading(false).  Promise reactions run in the order of their
\* awaits.  The new tiles array schedules MapGrid's [tiles] effect.
FetchTilesResume ==
    /\ pc = "app"
    /\ EffectsDone
    /\ inflight # <<>>
    /\ tiles' = Head(inflight).tiles
    /\ mapOffset' = Head(inflight).offset
    /\ isLoading' = FALSE
    /\ inflight' = Tail(inflight)
    /\ tilesEffectDue' = TRUE
    /\ UNCHANGED <<location, error, sessionToken, fetchEffectDue, changes,
                   formLocation, formSameObject, isPanning, panStart, panOffset,
                   lastPanEnd, dragDelta, coreVars>>

\* setLocation(newLocation) with a new object: re-render, fetch effect scheduled.
SetLocation(newLocation) ==
    /\ changes < MaxChanges
    /\ changes' = changes + 1
    /\ location' = newLocation
    /\ fetchEffectDue' = TRUE

\* handleZoomIn (the button is disabled at zoom >= MAX_ZOOM)
HandleZoomIn ==
    /\ pc = "app"
    /\ EffectsDone
    /\ ~(location.zoom >= MAX_ZOOM)
    /\ LET newZoom == IF location.zoom + 1 < MAX_ZOOM THEN location.zoom + 1 ELSE MAX_ZOOM
       IN  /\ newZoom # location.zoom
           /\ SetLocation([location EXCEPT !.zoom = newZoom])
    /\ formSameObject' = FALSE
    /\ UNCHANGED <<tiles, mapOffset, isLoading, error, sessionToken, inflight,
                   formLocation, isPanning, panStart, panOffset, tilesEffectDue,
                   lastPanEnd, dragDelta, coreVars>>

\* handleZoomOut (the button is disabled at zoom <= MIN_ZOOM)
HandleZoomOut ==
    /\ pc = "app"
    /\ EffectsDone
    /\ ~(location.zoom <= MIN_ZOOM)
    /\ LET newZoom == IF location.zoom - 1 > MIN_ZOOM THEN location.zoom - 1 ELSE MIN_ZOOM
       IN  /\ newZoom # location.zoom
           /\ SetLocation([location EXCEPT !.zoom = newZoom])
    /\ formSameObject' = FALSE
    /\ UNCHANGED <<tiles, mapOffset, isLoading, error, sessionToken, inflight,
                   formLocation, isPanning, panStart, panOffset, tilesEffectDue,
                   lastPanEnd, dragDelta, coreVars>>

\* ------------------------------------------------------- LocationForm
\* What the model's user enters into the form: the number inputs take any
\* number, the range input only MIN_ZOOM..MAX_ZOOM.  The model's user moves
\* the zoom slider only, to either end.
FormNames == {"zoom"}
\* Faulty variant: the range input lacks min={MIN_ZOOM}; HTML's default is 0.
FormValuesNoMin(name) == IF name = "zoom" THEN {0, MAX_ZOOM} ELSE {0}

FormValues(name) == IF name = "zoom" THEN {MIN_ZOOM, MAX_ZOOM} ELSE {0}

\* handleChange: setLocation(prev => ({...prev, [name]: Number(value)})); the
\* inputs are disabled while isLoading.
HandleChange(name, value) ==
    /\ pc = "app"
    /\ EffectsDone
    /\ ~isLoading
    /\ formLocation' = [formLocation EXCEPT ![name] = value]
    /\ formSameObject' = FALSE
    /\ UNCHANGED <<location, tiles, mapOffset, isLoading, error, sessionToken,
                   fetchEffectDue, inflight, changes, isPanning, panStart, panOffset,
                   tilesEffectDue, lastPanEnd,
                   dragDelta, coreVars>>

\* handleLocationSubmit -> App.handleSubmit: setLocation(newLocation), which
\* React ignores when newLocation is the object it already holds.  The
\* submit button is disabled while isLoading.
HandleSubmit ==
    /\ pc = "app"
    /\ EffectsDone
    /\ ~isLoading
    /\ IF formSameObject
       THEN UNCHANGED <<location, fetchEffectDue, changes, formSameObject>>
       ELSE /\ SetLocation(formLocation)
            /\ formSameObject' = TRUE
    /\ UNCHANGED <<tiles, mapOffset, isLoading, error, sessionToken, inflight,
                   formLocation, isPanning, panStart, panOffset, tilesEffectDue,
                   lastPanEnd, dragDelta, coreVars>>

\* ------------------------------------------------------------ MapGrid
\* MapGrid renders the grid and its mouse handlers only past its three
\* early returns (spinner, error box, "No Tiles to Display").
GridRendered == error = "" /\ tiles # <<>>

\* MemoizedTile: left = tile.gridX * stepDistance, in whole pixels.
TileLeft(tile) == tile.gridX * (TILE_SIZE * POSITIONING_FACTOR)

\* MemoizedTile: top = tile.gridY * stepDistance, in whole pixels.
TileTop(tile) == tile.gridY * (TILE_SIZE * POSITIONING_FACTOR)

\* MapGrid: viewportWidth = viewportHeight, in whole pixels.
GridViewportWidth == (VISIBLE_GRID_DIMENSION - 1) * (TILE_SIZE * POSITIONING_FACTOR) + TILE_SIZE

\* MapGrid: gridContainerWidth = gridContainerHeight, in whole pixels.
GridContainerWidth == (FETCH_GRID_DIMENSION - 1) * (TILE_SIZE * POSITIONING_FACTOR) + TILE_SIZE

\* Pointer positions (clientX, clientY) of the model's mouse events.
MousePoints == {[x |-> Fixed(40), y |-> Fixed(300)],
                [x |-> Fixed(140), y |-> Fixed(240)]}

\* useEffect(() => { setErrorTiles(0); setPanOffset({x: 0, y: 0}) }, [tiles])
TilesEffect ==
    /\ pc = "app"
    /\ tilesEffectDue
    /\ tilesEffectDue' = FALSE
    /\ panOffset' = [x |-> 0, y |-> 0]
    /\ UNCHANGED <<location, tiles, mapOffset, isLoading, error, sessionToken,
                   fetchEffectDue, inflight, changes, formLocation, formSameObject,
                   isPanning, panStart, lastPanEnd,
                   dragDelta, coreVars>>

\* handleMouseDown: setIsPanning(true); setPanStart({x: clientX, y: clientY})
HandleMouseDown(p) ==
    /\ pc = "app"
    /\ EffectsDone
    /\ GridRendered
    /\ isPanning' = TRUE
    /\ panStart' = <<p>>
    /\ lastPanEnd' = <<>>
    /\ dragDelta' = [x |-> 0, y |-> 0]
    /\ UNCHANGED <<location, tiles, mapOffset, isLoading, error, sessionToken,
                   fetchEffectDue, inflight, changes, formLocation, formSameObject,
                   panOffset, tilesEffectDue, coreVars>>

\* The model's user has one mouse button: a press only while none is held.
PressButton(p) ==
    /\ ~isPanning
    /\ HandleMouseDown(p)

\* handleMouseMove: if (!isPanning || !panStart) return; setPanOffset(p - panStart)
HandleMouseMove(p) ==
    /\ pc = "app"
    /\ EffectsDone
    /\ GridRendered
    /\ IF ~isPanning \/ panStart = <<>>
       THEN UNCHANGED panOffset
       ELSE panOffset' = [x |-> p.x - panStart[1].x, y |-> p.y - panStart[1].y]
    /\ dragDelta' = IF isPanning /\ panStart # <<>>
                    THEN [x |-> p.x - panStart[1].x, y |-> p.y - panStart[1].y]
                    ELSE dragDelta
    /\ UNCHANGED <<location, tiles, mapOffset, isLoading, error, sessionToken,
                   fetchEffectDue, inflight, changes, formLocation, formSameObject,
                   isPanning, panStart, tilesEffectDue, lastPanEnd, coreVars>>

\* Faulty variant: no zero-delta guard.
HandlePanEndUnguarded(panX, panY) ==
    LET newLocation == ResolvePan(location, panX, panY)
    IN  /\ SetLocation(newLocation)
        /\ formSameObject' = FALSE

\* App.handlePanEnd(panX, panY): if (panX === 0 && panY === 0) return;
\* otherwise setLocation(the resolved location).
HandlePanEnd(panX, panY) ==
    IF panX = 0 /\ panY = 0
    THEN UNCHANGED <<location, fetchEffectDue, changes, formSameObject>>
    ELSE LET newLocation == ResolvePan(location, panX, panY)
             newTile == latLngToPreciseTileXY(newLocation.lat, newLocation.lng,
                                              newLocation.zoom)
         IN  /\ Representable(newTile.x, location.zoom)
             /\ Representable(newTile.y, location.zoom)
             /\ SetLocation(newLocation)
             /\ formSameObject' = FALSE

\* Faulty variant: endPan without its isPanning guard.
EndPanUnguarded ==
    /\ pc = "app"
    /\ EffectsDone
    /\ GridRendered
    /\ HandlePanEnd(panOffset.x, panOffset.y)
    /\ isPanning' = FALSE
    /\ panStart' = <<>>
    /\ lastPanEnd' = Append(lastPanEnd, panOffset)
    /\ UNCHANGED <<tiles, mapOffset, isLoading, error, sessionToken, inflight,
                   formLocation, panOffset, tilesEffectDue, dragDelta, coreVars>>

\* endPan: if (!isPanning) return; onPanEnd(panOffset.x, panOffset.y);
\* setIsPanning(false); setPanStart(null)
EndPan ==
    /\ pc = "app"
    /\ EffectsDone
    /\ GridRendered
    /\ IF ~isPanning
       THEN UNCHANGED <<location, fetchEffectDue, changes, formSameObject,
                        isPanning, panStart, lastPanEnd>>
       ELSE /\ HandlePanEnd(panOffset.x, panOffset.y)
            /\ isPanning' = FALSE
            /\ panStart' = <<>>
            /\ lastPanEnd' = Append(lastPanEnd, panOffset)
    /\ UNCHANGED <<tiles, mapOffset, isLoading, error, sessionToken, inflight,
                   formLocation, panOffset, tilesEffectDue, dragDelta, coreVars>>

\* handleMouseUp: endPan()
HandleMouseUp == EndPan

\* handleMouseLeave: endPan()
HandleMouseLeave == EndPan

CoreIdle ==
    /\ pc = "app"
    /\ cCenter = [lat |-> 0, lng |-> 0]
    /\ cZoom = MIN_ZOOM
    /\ cGridDimension = 1
    /\ cData = <<>>
    /\ cPan = <<>>
    /\ cBefore = <<>>

\* The application.  A handler and the render that follows it are one step.
\* An effect (FetchTilesStart, TilesEffect) is a step of its own, taken after
\* the render that scheduled it and before the next handler's render.  The
\* resumption of fetchTiles after its await, with the render of its updates
\* (FetchTilesResume), is a later step: user events may come in between.
Init == AppInit /\ CoreIdle

Next ==
    \/ InitSessionOk
    \/ InitSessionFail
    \/ FetchTilesStart
    \/ FetchTilesResume
    \/ TilesEffect
    \/ HandleZoomIn
    \/ HandleZoomOut
    \/ \E name \in FormNames : \E value \in FormValues(name) : HandleChange(name, value)
    \/ HandleSubmit
    \/ \E p \in MousePoints : PressButton(p)
    \/ \E p \in MousePoints : HandleMouseMove(p)
    \/ HandleMouseUp
    \/ HandleMouseLeave

Spec == Init /\ [][Next]_vars

\* ---------------------------------------------------- function harness
\* The pure functions applied to drawn arguments: a centre, a zoom and a
\* gridDimension are drawn, getTilesForArea is called, the centre is panned
\* through handlePanEnd's arithmetic, and getTilesForArea is called again.
\* Centres: the equator / Greenwich (a tile corner at every zoom), the
\* default location, the map's edges, and a point off every pixel grid.
CoreLats == {0, DEFAULT_LOCATION.lat, Deg180 - UnitsPerStep(MIN_ZOOM + 1), -Lat85,
             -Deg180}
CoreLngs == {0, DEFAULT_LOCATION.lng, -Deg180, 123456789, Deg180}
CoreZooms == {MIN_ZOOM, MIN_ZOOM + 1, DEFAULT_LOCATION.zoom, MAX_ZOOM}
CoreGrids == 1 .. MaxGrid
\* Pixel deltas of the harness's pans, per axis.
CorePans == {Fixed(0), Fixed(TILE_SIZE), Fixed(-TILE_SIZE), Fixed(2 * TILE_SIZE),
             Fixed(77), Fixed(-300)}

InitCore ==
    /\ AppInit
    /\ pc = "ready"
    /\ cCenter \in [lat : CoreLats, lng : CoreLngs]
    /\ cZoom \in CoreZooms
    /\ cGridDimension \in CoreGrids
    /\ cData = <<>>
    /\ cPan = <<>>
    /\ cBefore = <<>>

\* getTilesForArea({center, zoom, gridDimension, sessionToken, apiKey})
CallGetTilesForArea ==
    /\ pc \in {"ready", "panned"}
    /\ cData' = <<getTilesForArea(cCenter, cZoom, cGridDimension, "session", "key")>>
    /\ pc' = IF pc = "ready" THEN "built" ELSE "rebuilt"
    /\ UNCHANGED <<cCenter, cZoom, cGridDimension, cPan, cBefore, appVars>>

\* handlePanEnd(panX, panY) on the harness's centre.
CallHandlePanEnd(panX, panY) ==
    /\ pc = "built"
    /\ LET newLocation == PanEndLocation([lat |-> cCenter.lat, lng |-> cCenter.lng,
                                         zoom |-> cZoom], panX, panY)
           newTile == latLngToPreciseTileXY(newLocation.lat, newLocation.lng,
                                            newLocation.zoom)
       IN  /\ Representable(newTile.x, cZoom)
           /\ Representable(newTile.y, cZoom)
           /\ cCenter' = [lat |-> newLocation.lat, lng |-> newLocation.lng]
           /\ cZoom' = newLocation.zoom
    /\ cPan' = <<[x |-> panX, y |-> panY]>>
    /\ cBefore' = <<[center |-> cCenter, zoom |-> cZoom, data |-> cData[1]]>>
    /\ pc' = "panned"
    /\ UNCHANGED <<cGridDimension, cData, appVars>>

NextCore ==
    \/ CallGetTilesForArea
    \/ \E panX \in CorePans : \E panY \in CorePans : CallHandlePanEnd(panX, panY)

SpecCore == InitCore /\ [][NextCore]_vars

\* The same calls with arguments outside the documented ranges as well: a
\* zoom below MIN_ZOOM and a gridDimension that is zero or negative.  (A zoom
\* above MAX_ZOOM needs steps finer than the fixed point carries.)  None of
\* the three functions has a throw statement or validates an argument, so a
\* call always reaches "built" with the value the arithmetic gives.
PreZooms == {MIN_ZOOM - 1, MIN_ZOOM, DEFAULT_LOCATION.zoom}
PreGrids == {-1, 0, 1, VISIBLE_GRID_DIMENSION}

InitPre ==
    /\ AppInit
    /\ pc = "ready"
    /\ cCenter \in [lat : CoreLats, lng : CoreLngs]
    /\ cZoom \in PreZooms
    /\ cGridDimension \in PreGrids
    /\ cData = <<>>
    /\ cPan = <<>>
    /\ cBefore = <<>>

NextPre == CallGetTilesForArea

SpecPre == InitPre /\ [][NextPre]_vars

\* ================================================================ claims
\* The harness holds the MapData of a finished getTilesForArea call.
Built == pc \in {"built", "rebuilt"}
Odd(k) == k % 2 = 1
\* The fractional tile coordinate of the harness's centre.
CoreCentre == latLngToPreciseTileXY(cCenter.lat, cCenter.lng, cZoom)

\* C1: for every centre, zoom and odd gridDimension N >= 1, getTilesForArea
\* returns exactly N*N cells, every gridX and gridY lies in 0..N-1, and each
\* (gridY, gridX) pair occurs exactly once.
C1_GridSize ==
    (Built /\ Odd(cGridDimension)) =>
        LET cells == cData[1].tiles
            N == cGridDimension
        IN  /\ Len(cells) = N * N
            /\ \A k \in 1 .. Len(cells) :
                   cells[k].gridX \in 0 .. N - 1 /\ cells[k].gridY \in 0 .. N - 1
            /\ \A r \in 0 .. N - 1 : \A c \in 0 .. N - 1 :
                   Cardinality({k \in 1 .. Len(cells) :
                                  cells[k].gridY = r /\ cells[k].gridX = c}) = 1

C1_Witness ==
    /\ pc = "built"
    /\ cGridDimension = FETCH_GRID_DIMENSION
    /\ Len(cData[1].tiles) = FETCH_GRID_DIMENSION * FETCH_GRID_DIMENSION

\* C2: the cells are in row-major order: the cell at 0-based list position k
\* has gridY = k div N and gridX = k mod N, so gridY never decreases along
\* the list and gridX runs 0..N-1 within each row.
C2_RowMajor ==
    Built =>
        LET cells == cData[1].tiles
            N == cGridDimension
        IN  /\ \A k \in 1 .. Len(cells) :
                   /\ cells[k].gridY = (k - 1) \div N
                   /\ cells[k].gridX = (k - 1) % N
            /\ \A k \in 1 .. Len(cells) - 1 : cells[k].gridY <= cells[k + 1].gridY

C2_Witness ==
    /\ pc = "built"
    /\ cGridDimension = 3
    /\ Len(cData[1].tiles) = 9
    /\ cData[1].tiles[4].gridY = 1 /\ cData[1].tiles[4].gridX = 0

\* C3: for every positive gridDimension N (odd or even), half = floor(N/2),
\* the cell at (gridY i, gridX j) carries tile index (floor(cx) - half + j,
\* floor(cy) - half + i, zoom); the anchor tile (the one containing the
\* centre) is the cell at gridX = gridY = half; for even N the grid has N/2
\* tiles on the lower-index side of the anchor and N/2 - 1 on the higher.
C3_TileIndex ==
    Built =>
        LET cells == cData[1].tiles
            N == cGridDimension
            half == N \div 2
            fx == CoreCentre.x \div ONE
            fy == CoreCentre.y \div ONE
            row == {k \in 1 .. Len(cells) : cells[k].gridY = half}
            col == {k \in 1 .. Len(cells) : cells[k].gridX = half}
        IN  /\ \A k \in 1 .. Len(cells) :
                   cells[k].key = <<cZoom, fx - half + cells[k].gridX,
                                    fy - half + cells[k].gridY>>
            /\ \E k \in 1 .. Len(cells) :
                   /\ cells[k].gridX = half /\ cells[k].gridY = half
                   /\ cells[k].key = <<cZoom, fx, fy>>
            /\ ~Odd(N) =>
                   /\ Cardinality({k \in row : cells[k].key[2] < fx}) = N \div 2
                   /\ Cardinality({k \in row : cells[k].key[2] > fx}) = N \div 2 - 1
                   /\ Cardinality({k \in col : cells[k].key[3] < fy}) = N \div 2
                   /\ Cardinality({k \in col : cells[k].key[3] > fy}) = N \div 2 - 1

C3_Witness ==
    /\ pc = "built"
    /\ cGridDimension = 4
    /\ cData[1].tiles[1].key[2] = CoreCentre.x \div ONE - 2
    /\ cData[1].tiles[16].key[2] = CoreCentre.x \div ONE + 1

\* C4: the offset is, on each axis, viewportCenter - (fractionalCenter -
\* topLeft) * TILE_SIZE with viewportCenter = ((VISIBLE_GRID_DIMENSION - 1) *
\* TILE_SIZE * POSITIONING_FACTOR + TILE_SIZE) / 2, whatever the gridDimension.
C4_Offset ==
    Built =>
        LET topLeft == cData[1].tiles[1].key
            viewportCenter ==
                Fixed((VISIBLE_GRID_DIMENSION - 1) * TILE_SIZE * POSITIONING_FACTOR
                      + TILE_SIZE) \div 2
        IN  /\ cData[1].offset.x
                 = viewportCenter - (CoreCentre.x - Fixed(topLeft[2])) * TILE_SIZE
            /\ cData[1].offset.y
                 = viewportCenter - (CoreCentre.y - Fixed(topLeft[3])) * TILE_SIZE

C4_Witness ==
    /\ pc = "built"
    /\ cGridDimension = 1
    /\ CoreCentre.x % ONE # 0
    /\ cData[1].offset.x = Fixed(384) - (CoreCentre.x % ONE) * TILE_SIZE

\* C5: when the centre lies exactly on a tile corner (fractional part 0 on
\* both axes) and N is odd, the offset equals viewportCenter minus the pixel
\* origin of the middle cell (gridX = gridY = floor(N/2)) on each axis, the
\* origin being where MemoizedTile lays that cell out.
C5_CornerCentre ==
    (/\ Built /\ Odd(cGridDimension)
     /\ CoreCentre.x % ONE = 0 /\ CoreCentre.y % ONE = 0) =>
        LET cells == cData[1].tiles
            half == cGridDimension \div 2
        IN  \E k \in 1 .. Len(cells) :
                /\ cells[k].gridX = half /\ cells[k].gridY = half
                /\ cData[1].offset.x = Fixed(GridViewportWidth) \div 2
                                         - Fixed(TileLeft(cells[k]))
                /\ cData[1].offset.y = Fixed(GridViewportWidth) \div 2
                                         - Fixed(TileTop(cells[k]))

C5_Witness ==
    /\ pc = "built"
    /\ cGridDimension = FETCH_GRID_DIMENSION
    /\ CoreCentre.x % ONE = 0 /\ CoreCentre.y % ONE = 0
    /\ cData[1].offset = [x |-> Fixed(384 - 512), y |-> Fixed(384 - 512)]

\* C6: laid out as the UI lays it out (cell (gridX, gridY) at pixel (gridX,
\* gridY) * TILE_SIZE * POSITIONING_FACTOR, each tile TILE_SIZE wide, the
\* whole grid translated by the offset), the grid shows the requested point
\* at exactly the pixel centre of the visible viewport on both axes, wherever
\* the centre falls inside its tile.
C6_CentreAtViewportCentre ==
    Built =>
        LET cells == cData[1].tiles
            fx == CoreCentre.x \div ONE
            fy == CoreCentre.y \div ONE
        IN  \E k \in 1 .. Len(cells) :
                /\ cells[k].key = <<cZoom, fx, fy>>
                /\ cData[1].offset.x + Fixed(TileLeft(cells[k]))
                     + (CoreCentre.x - Fixed(fx)) * TILE_SIZE
                   = Fixed(GridViewportWidth) \div 2
                /\ cData[1].offset.y + Fixed(TileTop(cells[k]))
                     + (CoreCentre.y - Fixed(fy)) * TILE_SIZE
                   = Fixed(GridViewportWidth) \div 2

C6_Witness ==
    /\ pc = "built"
    /\ cGridDimension = FETCH_GRID_DIMENSION
    /\ CoreCentre.x % ONE # 0 /\ CoreCentre.y % ONE # 0
    /\ cData[1].offset.x + Fixed(2 * TILE_SIZE) + (CoreCentre.x % ONE) * TILE_SIZE
         = Fixed(384)

\* C8: a pan with zero delta on both axes is a no-op: handlePanEnd(0, 0)
\* leaves the location (latitude, longitude, zoom) untouched and starts no
\* tile refetch.
C8_ZeroPanNoOp ==
    [][(/\ isPanning /\ ~isPanning'
        /\ panOffset = [x |-> 0, y |-> 0])
       => (/\ location' = location
           /\ fetchEffectDue' = fetchEffectDue
           /\ inflight' = inflight
           /\ isLoading' = isLoading)]_vars

C8_Witness ==
    /\ ~isPanning
    /\ lastPanEnd = <<[x |-> 0, y |-> 0]>>
    /\ ~fetchEffectDue /\ inflight = <<>> /\ ~isLoading

\* C9: handlePanEnd moves the centre in tile space by exactly -pixelDelta /
\* TILE_SIZE on each axis, so a positive pixelDeltaX yields a strictly lower
\* tile x and a lower longitude; the zoom is unchanged.
C9_PanMovesCentre ==
    (pc \in {"panned", "rebuilt"}) =>
        LET old == latLngToPreciseTileXY(cBefore[1].center.lat, cBefore[1].center.lng,
                                         cBefore[1].zoom)
            new == latLngToPreciseTileXY(cCenter.lat, cCenter.lng, cZoom)
        IN  /\ new.x = old.x - cPan[1].x \div TILE_SIZE
            /\ new.y = old.y - cPan[1].y \div TILE_SIZE
            /\ cZoom = cBefore[1].zoom
            /\ cPan[1].x > 0 => (new.x < old.x /\ cCenter.lng < cBefore[1].center.lng)

C9_Witness ==
    /\ pc = "panned"
    /\ cPan[1].x = Fixed(77)
    /\ cCenter.lng < cBefore[1].center.lng

ValidArguments ==
    /\ cGridDimension > 0
    /\ cZoom >= MIN_ZOOM /\ cZoom <= MAX_ZOOM

C11_FailLoudly ==
    (pc = "built" /\ ~ValidArguments) => cData = <<>>

\* C12: from DEFAULT_LOCATION, after any sequence of zoom-in, zoom-out,
\* pan-end and form-submit operations, location.zoom is an integer in
\* MIN_ZOOM..MAX_ZOOM, and so is the zoom of every getTilesForArea call
\* (read off the tiles it built).
C12_ZoomInvariant ==
    /\ location.zoom \in MIN_ZOOM .. MAX_ZOOM
    /\ \A k \in 1 .. Len(inflight) : \A t \in 1 .. Len(inflight[k].tiles) :
           inflight[k].tiles[t].key[1] \in MIN_ZOOM .. MAX_ZOOM
    /\ \A t \in 1 .. Len(tiles) : tiles[t].key[1] \in MIN_ZOOM .. MAX_ZOOM

C12_Witness ==
    /\ location.zoom = MAX_ZOOM - 1
    /\ formLocation.zoom = MAX_ZOOM
    /\ tiles # <<>> /\ tiles[1].key[1] = MAX_ZOOM
    /\ inflight # <<>> /\ inflight[1].tiles[1].key[1] = MAX_ZOOM - 1

\* The harness's centre is a GeoCoordinate: longitude in [-180, 180] and
\* latitude within the Mercator limits, both ends included.
CentreInRange ==
    /\ cCenter.lng >= -Deg180 /\ cCenter.lng <= Deg180
    /\ cCenter.lat >= -Deg180 /\ cCenter.lat <= Deg180

\* C13 as stated: for every longitude in [-180, 180], latitude in the
\* Mercator-valid range and valid zoom, latLngToPreciseTileXY returns
\* 0 <= x < 2^zoom and 0 <= y < 2^zoom, so the anchor tile exists.
C13_TileSpaceRange ==
    (Built /\ CentreInRange) =>
        /\ CoreCentre.x >= 0 /\ CoreCentre.x < Fixed(Pow2(cZoom))
        /\ CoreCentre.y >= 0 /\ CoreCentre.y < Fixed(Pow2(cZoom))

\* C13 amended: for every longitude in [-180, 180] and valid zoom,
\* 0 <= x <= 2^zoom, and x = 2^zoom at longitude 180, where the anchor tile
\* floor(x) = 2^zoom is one past the last tile column; for every latitude with
\* |latitude| <= 85 degrees, 0 <= y < 2^zoom and floor(y) is a tile row that
\* exists at that zoom.
C13_TileSpaceRangeClosed ==
    Built =>
        /\ (cCenter.lng >= -Deg180 /\ cCenter.lng <= Deg180) =>
               /\ CoreCentre.x >= 0 /\ CoreCentre.x <= Fixed(Pow2(cZoom))
               /\ Floor(CoreCentre.x) \in 0 .. Pow2(cZoom)
        /\ cCenter.lng = Deg180 =>
               /\ CoreCentre.x = Fixed(Pow2(cZoom))
               /\ Floor(CoreCentre.x) = Pow2(cZoom)
        /\ (cCenter.lat >= -Lat85 /\ cCenter.lat <= Lat85) =>
               /\ CoreCentre.y >= 0 /\ CoreCentre.y < Fixed(Pow2(cZoom))
               /\ Floor(CoreCentre.y) \in 0 .. Pow2(cZoom) - 1

C13_Witness ==
    /\ pc = "built"
    /\ cCenter.lng = Deg180 /\ cCenter.lat = -Lat85
    /\ cZoom = DEFAULT_LOCATION.zoom
    /\ cGridDimension = 1
    /\ cData[1].tiles[1].key[2] = Pow2(cZoom)
    /\ cData[1].tiles[1].key[3] \in 0 .. Pow2(cZoom) - 1

\* C14: the drag state is Idle (isPanning false, panStart null) or Dragging
\* (isPanning true, panStart set); pointer-down enters Dragging; onPanEnd is
\* called only in the step that takes Dragging back to Idle and exactly once
\* in it, so a gesture has made no call while it lasts and exactly one when
\* it is over, and no call is made while Idle.
C14_DragProtocol ==
    /\ [](/\ isPanning <=> panStart # <<>>
          /\ isPanning => lastPanEnd = <<>>
          /\ Len(lastPanEnd) <= 1)
    /\ [][/\ (panStart' # panStart /\ panStart' # <<>>) => (isPanning' /\ lastPanEnd' = <<>>)
          /\ (isPanning /\ ~isPanning') => Len(lastPanEnd') = 1
          /\ (~isPanning /\ ~isPanning') => lastPanEnd' = lastPanEnd
          /\ (isPanning /\ isPanning') => lastPanEnd' = <<>>]_vars

C14_Witness ==
    /\ ~isPanning /\ panStart = <<>>
    /\ lastPanEnd = <<[x |-> Fixed(100), y |-> Fixed(-60)]>>
    /\ location # DEFAULT_LOCATION

\* C15: the pixel delta handed to onPanEnd at the end of a gesture is that
\* gesture's own pointer displacement (last pointer position minus the
\* pointer-down position); a press and release without a move reports (0, 0)
\* whatever an earlier gesture did.
C15_OwnDisplacement ==
    lastPanEnd # <<>> => lastPanEnd[1] = dragDelta

\* Drags of up to TILE_SIZE / 2 pixels on an axis, either way: every 16th
\* pixel, and one pixel inside each end.
Drags ==
    {Fixed(16 * k) : k \in -(TILE_SIZE \div 32) .. TILE_SIZE \div 32}
        \cup {Fixed(1 - TILE_SIZE \div 2), Fixed(TILE_SIZE \div 2 - 1)}

\* The tiles laid out by MemoizedTile and translated by t cover the viewport
\* 0 .. GridViewportWidth on the x axis (left) or the y axis (top): the
\* container does, a tile starts at or before the near edge, one ends at or
\* after the far edge, and neighbouring tiles leave no gap.
CoversX(cells, t) ==
    /\ t <= 0 /\ t + Fixed(GridContainerWidth) >= Fixed(GridViewportWidth)
    /\ \E k \in 1 .. Len(cells) : t + Fixed(TileLeft(cells[k])) <= 0
    /\ \E k \in 1 .. Len(cells) :
           t + Fixed(TileLeft(cells[k]) + TILE_SIZE) >= Fixed(GridViewportWidth)
    /\ \A k \in 1 .. Len(cells) - 1 :
           cells[k + 1].gridY = cells[k].gridY =>
               TileLeft(cells[k + 1]) <= TileLeft(cells[k]) + TILE_SIZE

CoversY(cells, t) ==
    /\ t <= 0 /\ t + Fixed(GridContainerWidth) >= Fixed(GridViewportWidth)
    /\ \E k \in 1 .. Len(cells) : t + Fixed(TileTop(cells[k])) <= 0
    /\ \E k \in 1 .. Len(cells) :
           t + Fixed(TileTop(cells[k]) + TILE_SIZE) >= Fixed(GridViewportWidth)
    /\ \A k \in 1 .. Len(cells) - FETCH_GRID_DIMENSION :
           TileTop(cells[k + FETCH_GRID_DIMENSION]) <= TileTop(cells[k]) + TILE_SIZE

\* C16: with the configured constants, for every centre the fetched grid
\* (gridDimension = FETCH_GRID_DIMENSION) translated by its offset covers the
\* visible viewport on both axes, and still does with a further drag of up to
\* TILE_SIZE / 2 pixels in any direction.
C16_ViewportCovered ==
    (Built /\ cGridDimension = FETCH_GRID_DIMENSION) =>
        /\ CoversX(cData[1].tiles, cData[1].offset.x)
        /\ CoversY(cData[1].tiles, cData[1].offset.y)
        /\ \A d \in Drags :
               /\ CoversX(cData[1].tiles, cData[1].offset.x + d)
               /\ CoversY(cData[1].tiles, cData[1].offset.y + d)

\* The near edge is reached on x by the largest drag one way, and the far edge
\* on y is within a pixel of the viewport's by the largest drag the other way.
C16_Witness ==
    /\ pc = "built"
    /\ cGridDimension = FETCH_GRID_DIMENSION
    /\ cData[1].offset.x + Fixed(TILE_SIZE \div 2) = 0
    /\ cData[1].offset.y - Fixed(TILE_SIZE \div 2) + Fixed(GridContainerWidth)
         = Fixed(GridViewportWidth + 1)

\* What getTilesForArea yields for the App's current location.
DataOfLocation ==
    getTilesForArea([lat |-> location.lat, lng |-> location.lng], location.zoom,
                    FETCH_GRID_DIMENSION, sessionToken, "key")

\* C17: with a session token, once every started fetchTiles call has
\* finished (no fetch effect is due, none is suspended at its await),
\* isLoading is false and the displayed tiles and offset are those
\* getTilesForArea yields for the latest location with gridDimension =
\* FETCH_GRID_DIMENSION; while calls are suspended the newest of them is the
\* one for the latest location, and it is the last to resume.
C17_LatestLocationShown ==
    (sessionToken # "" /\ ~fetchEffectDue) =>
        IF inflight = <<>>
        THEN /\ ~isLoading
             /\ tiles = DataOfLocation.tiles
             /\ mapOffset = DataOfLocation.offset
        ELSE inflight[Len(inflight)] = DataOfLocation

C17_Witness ==
    /\ sessionToken # "" /\ ~fetchEffectDue /\ inflight = <<>>
    /\ location.zoom = DEFAULT_LOCATION.zoom + 1
    /\ location.lng # DEFAULT_LOCATION.lng
    /\ ~isLoading
    /\ tiles = DataOfLocation.tiles /\ tiles[1].key[1] = DEFAULT_LOCATION.zoom + 1

\* C18: in every rendered state with no drag in progress in which the
\* displayed tiles and offset are those of the current location, the pan
\* offset is (0, 0): the grid is translated by its offset alone.
C18_NoPanOnCurrentGrid ==
    (/\ GridRendered /\ ~isPanning
     /\ tiles = DataOfLocation.tiles /\ mapOffset = DataOfLocation.offset) =>
        panOffset = [x |-> 0, y |-> 0]

====
